---- MODULE Spec2Model ----
(***************************************************************************)
(* ConCommerce chat pipeline: the /api/chat POST handler (context router,  *)
(* criteria interpreter, filter merger, budget guard, relevance retriever, *)
(* grounding synthesizer, selection resolver) as a state machine.          *)
(*                                                                         *)
(* Conventions                                                             *)
(*  - A JavaScript value that may be undefined is a sequence: <<>> is      *)
(*    undefined and <<v>> is the value v.                                  *)
(*  - Strings are TLA+ strings; includes / trim / toLowerCase / split are  *)
(*    computed character by character.                                     *)
(*  - Similarity scores are hundredths (0.5 is 50).                        *)
(***************************************************************************)
EXTENDS Integers, Sequences, FiniteSets, TLC

VARIABLES
    pc,            \* position of the request's task in POST
    req,           \* the request body: message, provider, embeddingModel, filters, conversationHistory
    route,         \* which branch of POST answered: none, invalid, casual, followup, fresh
    parsedQuery,   \* ParsedQuery returned by parseQuery
    mergedFilters, \* result of mergeFilters
    indexQuery,    \* the query handed to the Pinecone index
    limit,         \* the topK argument of the searchProducts call, 0 before the call
    products,      \* the candidate list presented to the generator
    llmOut,        \* raw generator output (LLMResponse.content), <<>> before any
    llmErrors,     \* error messages raised by the backends tried so far
    resp,          \* the HTTP response, <<>> before the handler returns
    calls,         \* external calls issued for this request, in order
    llmArgs,       \* the arguments of each backend call of queryLLM, in order
    conversations, \* the client's conversation store (localStorage), as saved
    currentConversationId, \* the active conversation id (sessionStorage), <<>> when none
    created,       \* how many conversations createConversation has made
    lastSaved,     \* id of the conversation the last store call saved, <<>> if it saved none
    now            \* the reading of the client's clock, in milliseconds

vars == <<pc, req, route, parsedQuery, mergedFilters, indexQuery, limit, products,
          llmOut, llmErrors, resp, calls, llmArgs,
          conversations, currentConversationId, created, lastSaved, now>>

\* the request handler runs on the server and leaves the client's store alone
StoreUnchanged ==
    UNCHANGED <<conversations, currentConversationId, created, lastSaved, now>>

-----------------------------------------------------------------------------
(* Optional values *)

None == <<>>
Some(v) == <<v>>
IsSome(o) == o # <<>>
Get(o) == o[1]

\* JavaScript's  x || d  for an optional x whose present values are truthy
OrElse(o, d) == IF IsSome(o) THEN Get(o) ELSE d

\* JavaScript's  x || 0  for an optional number (0 is falsy too)
OrZero(o) == IF IsSome(o) THEN Get(o) ELSE 0

Range(s) == {s[i] : i \in 1..Len(s)}

-----------------------------------------------------------------------------
(* String primitives *)

UpperChars == "ABCDEFGHIJKLMNOPQRSTUVWXYZ"
LowerChars == "abcdefghijklmnopqrstuvwxyz"

CharAt(s, i) == SubSeq(s, i, i)

IsWhitespace(c) == c \in {" ", "\t", "\n"}

UpperSet == {CharAt(UpperChars, i) : i \in 1..Len(UpperChars)}

LowerChar(c) ==
    IF c \in UpperSet
    THEN CharAt(LowerChars, CHOOSE i \in 1..Len(UpperChars) : CharAt(UpperChars, i) = c)
    ELSE c

\* the characters of s from position i on, in lower case
RECURSIVE LowerFrom(_, _)
LowerFrom(s, i) ==
    IF i > Len(s) THEN ""
    ELSE LowerChar(CharAt(s, i)) \o LowerFrom(s, i + 1)

ToLowerCase(s) == LowerFrom(s, 1)

RECURSIVE TrimStart(_)
TrimStart(s) ==
    IF Len(s) > 0 /\ IsWhitespace(CharAt(s, 1)) THEN TrimStart(SubSeq(s, 2, Len(s)))
    ELSE s

RECURSIVE TrimEnd(_)
TrimEnd(s) ==
    IF Len(s) > 0 /\ IsWhitespace(CharAt(s, Len(s))) THEN TrimEnd(SubSeq(s, 1, Len(s) - 1))
    ELSE s

Trim(s) == TrimEnd(TrimStart(s))

\* String.prototype.includes
Includes(s, k) ==
    \E i \in 1..(Len(s) - Len(k) + 1) : SubSeq(s, i, i + Len(k) - 1) = k

\* s.split(/\s+/).length : one more than the number of whitespace runs
SplitWordCount(s) ==
    1 + Cardinality({i \in 1..Len(s) :
                        /\ IsWhitespace(CharAt(s, i))
                        /\ (i = 1 \/ ~IsWhitespace(CharAt(s, i - 1)))})

-----------------------------------------------------------------------------
(* Context Router *)

\* productKeywords of isCasualMessage
CasualProductKeywords ==
    {"laptop", "desktop", "pc", "computer", "phone", "mobile", "tablet",
     "monitor", "keyboard", "mouse", "headphone", "camera", "printer",
     "show me", "find", "search", "looking for", "need", "want", "buy",
     "price", "taka", "৳", "budget", "under", "above", "between",
     "gaming", "office", "work", "student", "professional",
     "i5", "i7", "ryzen", "ram", "ssd", "hdd", "gb", "tb"}

Greetings ==
    {"hi", "hello", "hey", "hola", "greetings", "good morning", "good afternoon",
     "good evening"}

CasualPhrases == {"how are you", "whats up", "what's up", "how r u", "sup"}

ThanksPhrases == {"thanks", "thank you"}

GoodbyePhrases == {"bye", "goodbye"}

\* faulty variant of IsCasualMessage: a message that starts with a greeting is casual
IsCasualMessageStartsWith(message) ==
    LET lowerMessage == Trim(ToLowerCase(message))
        StartsWith(g) == Len(lowerMessage) >= Len(g) /\ SubSeq(lowerMessage, 1, Len(g)) = g
    IN
    IF \E keyword \in CasualProductKeywords : Includes(lowerMessage, keyword) THEN FALSE
    ELSE IF \E g \in Greetings : StartsWith(g) THEN TRUE
    ELSE IF \E phrase \in CasualPhrases :
                lowerMessage = phrase \/ lowerMessage = phrase \o "?"
         THEN TRUE
    ELSE IF \E t \in ThanksPhrases : lowerMessage = t \/ lowerMessage = t \o "!"
         THEN TRUE
    ELSE IF \E b \in GoodbyePhrases : lowerMessage = b \/ lowerMessage = b \o "!"
         THEN TRUE
    ELSE FALSE

IsCasualMessage(message) ==
    LET lowerMessage == Trim(ToLowerCase(message)) IN
    IF \E keyword \in CasualProductKeywords : Includes(lowerMessage, keyword) THEN FALSE
    ELSE IF \E g \in Greetings :
                lowerMessage = g \/ lowerMessage = g \o "!" \/ lowerMessage = g \o "?"
         THEN TRUE
    ELSE IF \E phrase \in CasualPhrases :
                lowerMessage = phrase \/ lowerMessage = phrase \o "?"
         THEN TRUE
    ELSE IF \E t \in ThanksPhrases : lowerMessage = t \/ lowerMessage = t \o "!"
         THEN TRUE
    ELSE IF \E b \in GoodbyePhrases : lowerMessage = b \/ lowerMessage = b \o "!"
         THEN TRUE
    ELSE FALSE

\* productKeywords of shouldUseConversationHistory
ContextProductKeywords ==
    {"laptop", "desktop", "pc", "computer", "camera", "phone", "monitor",
     "keyboard", "mouse", "headphone", "speaker", "tablet", "processor",
     "ram", "ssd", "graphics", "display"}

ContextTriggers ==
    {"which", "what", "better", "best", "recommend", "choose",
     "first", "second", "third", "that", "this", "them", "it"}

FollowUpPhrases ==
    {"which is better", "which will be better", "which one",
     "tell me more", "more details", "more about",
     "compare them", "compare these", "difference between",
     "your recommendation", "what do you think",
     "the first one", "the second one", "the third one"}

ShouldUseConversationHistory(message, conversationHistory) ==
    IF Len(conversationHistory) = 0 THEN FALSE
    ELSE
      LET lowerMessage == Trim(ToLowerCase(message))
          hasProductKeyword == \E k \in ContextProductKeywords : Includes(lowerMessage, k)
          hasContextTrigger == \E t \in ContextTriggers : Includes(lowerMessage, t)
      IN IF SplitWordCount(lowerMessage) <= 5 /\ hasContextTrigger /\ ~hasProductKeyword
         THEN TRUE
         ELSE \E phrase \in FollowUpPhrases : Includes(lowerMessage, phrase)

\* [...conversationHistory].reverse().find(m => m.role === 'assistant' && m.products
\*    && m.products.length > 0)?.products || []
CarriesProducts(m) ==
    m.role = "assistant" /\ IsSome(m.products) /\ Len(Get(m.products)) > 0

Reverse(s) == [i \in 1..Len(s) |-> s[Len(s) + 1 - i]]

\* Array.prototype.find : the first element satisfying the test, or undefined
RECURSIVE FindCarrier(_)
FindCarrier(msgs) ==
    IF Len(msgs) = 0 THEN None
    ELSE IF CarriesProducts(Head(msgs)) THEN Some(Head(msgs))
    ELSE FindCarrier(Tail(msgs))

\* faulty variant of PreviousProducts: the products of the last assistant message,
\* whether or not it carries any
ProductsOfLastAssistant(conversationHistory) ==
    LET IsAssistant(m) == m.role = "assistant"
        assistants == SelectSeq(conversationHistory, IsAssistant)
    IN IF Len(assistants) = 0 THEN <<>>
       ELSE OrElse(assistants[Len(assistants)].products, <<>>)

PreviousProducts(conversationHistory) ==
    LET lastAssistantMessage == FindCarrier(Reverse(conversationHistory))
    IN IF IsSome(lastAssistantMessage) THEN Get(Get(lastAssistantMessage).products)
       ELSE <<>>

-----------------------------------------------------------------------------
(* Criteria Interpreter: parseQuery *)

SANITY_MAX_PRICE == 300000

ValidSources == {"StarTech", "Daraz"}
ValidProductCounts == {"single", "multiple", "comparison", "any"}
ValidActions == {"find", "compare", "recommend", "info"}

EmptyParsedQuery ==
    [priceRange |-> None, brands |-> None, categories |-> None,
     sources |-> None, intent |-> None]

\* The validation of parseQuery applied to the object JSON.parse returned.
CleanParsedQuery(parsed) ==
    LET NonEmptyString(x) == Len(x) > 0
        IsValidSource(x) == x \in ValidSources
    IN
    [priceRange |->
        IF IsSome(parsed.priceRange)
           /\ Get(parsed.priceRange)[1] >= 0
           /\ Get(parsed.priceRange)[2] <= SANITY_MAX_PRICE
        THEN Some(<<Get(parsed.priceRange)[1], Get(parsed.priceRange)[2]>>)
        ELSE None,
     brands |->
        IF IsSome(parsed.brands) /\ Len(Get(parsed.brands)) > 0
        THEN Some(SelectSeq(Get(parsed.brands), NonEmptyString))
        ELSE None,
     categories |->
        IF IsSome(parsed.categories) /\ Len(Get(parsed.categories)) > 0
        THEN Some(SelectSeq(Get(parsed.categories), NonEmptyString))
        ELSE None,
     sources |->
        IF IsSome(parsed.sources) /\ Len(Get(parsed.sources)) > 0
        THEN Some(SelectSeq(Get(parsed.sources), IsValidSource))
        ELSE None,
     intent |->
        IF IsSome(parsed.intent)
           /\ Get(parsed.intent).productCount \in ValidProductCounts
           /\ Get(parsed.intent).action \in ValidActions
        THEN parsed.intent
        ELSE None]

\* faulty variant of ParseQuery: a failed interpretation yields the widest price interval
\* instead of no criteria
ParseQueryWithDefault(reply) ==
    IF reply.kind = "object" THEN CleanParsedQuery(reply.v)
    ELSE [EmptyParsedQuery EXCEPT !.priceRange = Some(<<0, SANITY_MAX_PRICE>>)]

\* parseQuery: reply is what the external generator call produced:
\*   [kind |-> "error"]            the call rejected
\*   [kind |-> "text"]             text that JSON.parse rejects
\*   [kind |-> "null"]             the JSON value null (property access throws)
\*   [kind |-> "object", v |-> o]  a JSON object
\* Every throw is caught inside parseQuery and {} is returned.
ParseQuery(reply) ==
    IF reply.kind = "object" THEN CleanParsedQuery(reply.v) ELSE EmptyParsedQuery

-----------------------------------------------------------------------------
(* Filter Merger: mergeFilters *)

EmptyFilters ==
    [priceRange |-> None, categories |-> None, brands |-> None, source |-> None]

\* [...new Set(s)] : first occurrences, in order
RECURSIVE Dedup(_)
Dedup(s) ==
    IF Len(s) = 0 THEN <<>>
    ELSE LET front == Dedup(SubSeq(s, 1, Len(s) - 1))
             last == s[Len(s)]
         IN IF last \in Range(front) THEN front ELSE Append(front, last)

\* faulty variant of MergeFilters: the sidebar value wins for price and source whenever
\* the sidebar has one
MergeFiltersSidebarFirst(sidebarFilters, parsedFilters) ==
    LET spread == OrElse(sidebarFilters, EmptyFilters)
        wantBrands == IsSome(parsedFilters.brands) /\ Len(Get(parsedFilters.brands)) > 0
        wantCategories ==
            IsSome(parsedFilters.categories) /\ Len(Get(parsedFilters.categories)) > 0
    IN
    IF (wantBrands \/ wantCategories) /\ ~IsSome(sidebarFilters)
    THEN [threw |-> TRUE, merged |-> EmptyFilters]
    ELSE
      [threw |-> FALSE,
       merged |->
         [priceRange |->
             IF IsSome(spread.priceRange) THEN spread.priceRange
             ELSE parsedFilters.priceRange,
          brands |->
             IF wantBrands
             THEN Some(Dedup(OrElse(spread.brands, <<>>) \o Get(parsedFilters.brands)))
             ELSE spread.brands,
          categories |->
             IF wantCategories
             THEN Some(Dedup(OrElse(spread.categories, <<>>) \o Get(parsedFilters.categories)))
             ELSE spread.categories,
          source |->
             IF IsSome(spread.source) THEN spread.source ELSE parsedFilters.sources]]

\* faulty variant of MergeFilters: the lists are concatenated without the Set
MergeFiltersConcat(sidebarFilters, parsedFilters) ==
    LET spread == OrElse(sidebarFilters, EmptyFilters)
        wantBrands == IsSome(parsedFilters.brands) /\ Len(Get(parsedFilters.brands)) > 0
        wantCategories ==
            IsSome(parsedFilters.categories) /\ Len(Get(parsedFilters.categories)) > 0
        wantSources == IsSome(parsedFilters.sources) /\ Len(Get(parsedFilters.sources)) > 0
    IN
    IF (wantBrands \/ wantCategories) /\ ~IsSome(sidebarFilters)
    THEN [threw |-> TRUE, merged |-> EmptyFilters]
    ELSE
      [threw |-> FALSE,
       merged |->
         [priceRange |->
             IF IsSome(parsedFilters.priceRange) THEN parsedFilters.priceRange
             ELSE spread.priceRange,
          brands |->
             IF wantBrands
             THEN Some(OrElse(spread.brands, <<>>) \o Get(parsedFilters.brands))
             ELSE spread.brands,
          categories |->
             IF wantCategories
             THEN Some(OrElse(spread.categories, <<>>) \o Get(parsedFilters.categories))
             ELSE spread.categories,
          source |->
             IF wantSources THEN parsedFilters.sources ELSE spread.source]]

\* sidebarFilters is optional (the request may carry no filters).
\* The result is [threw |-> TRUE] when the body raises a TypeError.
MergeFilters(sidebarFilters, parsedFilters) ==
    LET spread == OrElse(sidebarFilters, EmptyFilters)   \* { ...sidebarFilters }
        wantBrands == IsSome(parsedFilters.brands) /\ Len(Get(parsedFilters.brands)) > 0
        wantCategories ==
            IsSome(parsedFilters.categories) /\ Len(Get(parsedFilters.categories)) > 0
        wantSources == IsSome(parsedFilters.sources) /\ Len(Get(parsedFilters.sources)) > 0
    IN
    IF (wantBrands \/ wantCategories) /\ ~IsSome(sidebarFilters)
    THEN [threw |-> TRUE, merged |-> EmptyFilters]   \* sidebarFilters.brands on undefined
    ELSE
      [threw |-> FALSE,
       merged |->
         [priceRange |->
             IF IsSome(parsedFilters.priceRange) THEN parsedFilters.priceRange
             ELSE spread.priceRange,
          brands |->
             IF wantBrands
             THEN Some(Dedup(OrElse(spread.brands, <<>>) \o Get(parsedFilters.brands)))
             ELSE spread.brands,
          categories |->
             IF wantCategories
             THEN Some(Dedup(OrElse(spread.categories, <<>>) \o Get(parsedFilters.categories)))
             ELSE spread.categories,
          source |->
             IF wantSources THEN parsedFilters.sources ELSE spread.source]]

-----------------------------------------------------------------------------
(* Relevance Retriever: searchProducts *)

RELEVANCE_THRESHOLD == 50          \* 0.5, HuggingFace
OPENAI_RELEVANCE_THRESHOLD == 40   \* 0.4, OpenAI
UNRESTRICTED_MAX_PRICE == 200000

GetNamespace(embeddingModel) ==
    IF embeddingModel = "huggingface" THEN Some("huggingface") ELSE None

HasPriceRange(filters) == IsSome(filters.priceRange) /\ Len(Get(filters.priceRange)) = 2

\* pineconeFilter; the query carries it only when it has at least one key
PineconeFilter(filters) ==
    [price_min_gte |->
        IF HasPriceRange(filters) /\ Get(filters.priceRange)[1] > 0
        THEN Some(Get(filters.priceRange)[1]) ELSE None,
     price_max_lte |->
        IF HasPriceRange(filters) /\ Get(filters.priceRange)[2] < UNRESTRICTED_MAX_PRICE
        THEN Some(Get(filters.priceRange)[2]) ELSE None,
     source_in |->
        IF IsSome(filters.sources) /\ Len(Get(filters.sources)) > 0
        THEN filters.sources ELSE None,
     brand_in |->
        IF IsSome(filters.brands) /\ Len(Get(filters.brands)) > 0
        THEN filters.brands ELSE None]

HasCategories(filters) == IsSome(filters.categories) /\ Len(Get(filters.categories)) > 0

\* faulty variant of FetchCount: never asks for more than topK
NoExtraFetch(filters, topK) == topK

FetchCount(filters, topK) == IF HasCategories(filters) THEN topK * 2 ELSE topK

\* the arguments of queryIndex.query
BuildIndexQuery(filters, topK, embeddingModel) ==
    [namespace |-> GetNamespace(embeddingModel),
     topK |-> FetchCount(filters, topK),
     filter |-> PineconeFilter(filters)]

\* faulty variant of Threshold: one threshold for both embedding spaces
CommonThreshold(embeddingModel) == OPENAI_RELEVANCE_THRESHOLD

Threshold(embeddingModel) ==
    IF embeddingModel = "huggingface" THEN RELEVANCE_THRESHOLD
    ELSE OPENAI_RELEVANCE_THRESHOLD

\* a Pinecone match to a Product (the fields the pipeline reads)
ToProduct(match) ==
    [id |-> match.id,
     price_min |-> OrZero(match.price_min),
     price_max |-> OrZero(match.price_max),
     category |-> OrElse(match.category, "")]

\* products.sort((a, b) => a.price_min - b.price_min) : stable, ascending
RECURSIVE InsertByPriceMin(_, _)
InsertByPriceMin(sorted, p) ==
    IF Len(sorted) = 0 THEN <<p>>
    ELSE IF sorted[Len(sorted)].price_min <= p.price_min THEN Append(sorted, p)
    ELSE Append(InsertByPriceMin(SubSeq(sorted, 1, Len(sorted) - 1), p), sorted[Len(sorted)])

RECURSIVE SortByPriceMin(_)
SortByPriceMin(ps) ==
    IF Len(ps) = 0 THEN <<>>
    ELSE InsertByPriceMin(SortByPriceMin(SubSeq(ps, 1, Len(ps) - 1)), ps[Len(ps)])

Slice(s, n) == SubSeq(s, 1, IF n < Len(s) THEN n ELSE Len(s))

RelevantMatches(matches, embeddingModel) ==
    LET Relevant(m) == OrZero(m.score) >= Threshold(embeddingModel)
    IN SelectSeq(matches, Relevant)

CategoryFilter(ps, filters) ==
    LET MatchesCategory(p) ==
            \E i \in 1..Len(Get(filters.categories)) :
                Includes(ToLowerCase(p.category), ToLowerCase(Get(filters.categories)[i]))
    IN IF HasCategories(filters) THEN SelectSeq(ps, MatchesCategory) ELSE ps

\* faulty variant of StrictPriceFilter: keeps every product whose interval overlaps the
\* requested one
OverlapPriceFilter(ps, filters) ==
    LET Overlaps(p) ==
            /\ p.price_min <= Get(filters.priceRange)[2]
            /\ p.price_max >= Get(filters.priceRange)[1]
    IN IF HasPriceRange(filters) THEN SelectSeq(ps, Overlaps) ELSE ps

StrictPriceFilter(ps, filters) ==
    LET WithinRange(p) ==
            /\ p.price_min >= Get(filters.priceRange)[1]
            /\ p.price_max <= Get(filters.priceRange)[2]
    IN IF HasPriceRange(filters) THEN SelectSeq(ps, WithinRange) ELSE ps

\* faulty variant of PriceSort: the list is left in relevance order
NoPriceSort(ps, filters) == ps

PriceSort(ps, filters) ==
    IF IsSome(filters.priceRange) /\ Len(Get(filters.priceRange)) >= 2
       /\ Get(filters.priceRange)[2] < UNRESTRICTED_MAX_PRICE
    THEN SortByPriceMin(ps) ELSE ps

\* what searchProducts returns when the index answered with matches
SearchProducts(matches, filters, topK, embeddingModel) ==
    LET relevantMatches == RelevantMatches(matches, embeddingModel)
        converted == [i \in 1..Len(relevantMatches) |-> ToProduct(relevantMatches[i])]
    IN Slice(PriceSort(StrictPriceFilter(CategoryFilter(converted, filters), filters),
                       filters),
             topK)

-----------------------------------------------------------------------------
(* Grounding Synthesizer and Selection Resolver                             *)
(*                                                                          *)
(* Generator output is a sequence of tokens and the value of the selection  *)
(* key:  "txt" is narrative text free of braces and fences, "{" and "}"     *)
(* are braces, "key" is the text  "selected_product_ids": [ids]  and        *)
(* "fence-json" / "fence" stand for the fence markers (three backquotes,  *)
(* with and without the json tag).  Whitespace between tokens is implicit.  *)

FenceTokens == {"fence-json", "fence"}

IndicesOf(tokens, t) == {i \in 1..Len(tokens) : tokens[i] = t}

Min(S) == CHOOSE x \in S : \A y \in S : x <= y

\* /\{[\s\S]*?"selected_product_ids"[\s\S]*?\}/ : the span <<first, last>> of the
\* leftmost match, or undefined
BareObjectMatch(tokens) ==
    LET After(S, i) == {j \in S : j > i}
        keys == IndicesOf(tokens, "key")
        closes == IndicesOf(tokens, "}")
        starts == {i \in IndicesOf(tokens, "{") :
                      \E k \in After(keys, i) : After(closes, k) # {}}
    IN IF starts = {} THEN None
       ELSE LET i == Min(starts)
                k == Min(After(keys, i))
            IN Some(<<i, Min(After(closes, k))>>)

\* /<fence>json?\s*(\{[\s\S]*?"selected_product_ids"[\s\S]*?\})\s*<fence>/ : the span of the
\* leftmost match, fences included, or undefined
CodeBlockMatch(tokens) ==
    LET After(S, i) == {j \in S : j > i}
        keys == IndicesOf(tokens, "key")
        Closes(k) == {r \in After(IndicesOf(tokens, "}"), k) :
                         r < Len(tokens) /\ tokens[r + 1] \in FenceTokens}
        starts == {f \in IndicesOf(tokens, "fence-json") :
                      /\ f < Len(tokens) /\ tokens[f + 1] = "{"
                      /\ \E k \in After(keys, f + 1) : Closes(k) # {}}
    IN IF starts = {} THEN None
       ELSE LET f == Min(starts)
                k == Min(After(keys, f + 1))
            IN Some(<<f, Min(Closes(k)) + 1>>)

\* String.prototype.replace(regex, "") for a match at span
RemoveSpan(tokens, span) ==
    SubSeq(tokens, 1, span[1] - 1) \o SubSeq(tokens, span[2] + 1, Len(tokens))

RemoveBareObject(tokens) ==
    LET m == BareObjectMatch(tokens) IN
    IF IsSome(m) THEN RemoveSpan(tokens, Get(m)) ELSE tokens

\* the closing fence of the pattern consumes only the backquotes of a "fence-json" token
RemoveCodeBlock(tokens) ==
    LET m == CodeBlockMatch(tokens) IN
    IF ~IsSome(m) THEN tokens
    ELSE SubSeq(tokens, 1, Get(m)[1] - 1)
         \o (IF tokens[Get(m)[2]] = "fence-json" THEN <<"txt">> ELSE <<>>)
         \o SubSeq(tokens, Get(m)[2] + 1, Len(tokens))

\* the text handed to JSON.parse: jsonMatch[0]
JsonMatch(tokens) ==
    LET bare == BareObjectMatch(tokens)
        block == CodeBlockMatch(tokens)
    IN IF IsSome(bare) THEN Some(SubSeq(tokens, Get(bare)[1], Get(bare)[2]))
       ELSE IF IsSome(block) THEN Some(SubSeq(tokens, Get(block)[1] + 1, Get(block)[2] - 1))
       ELSE None

\* JSON.parse accepts exactly a well-formed object
JsonParses(text) == text = <<"{", "key", "}">>

\* Step 5 of POST: [selectedProductIds, cleanedContent] from llmResponse.content
ParseSelection(out) ==
    LET jsonMatch == JsonMatch(out.tokens) IN
    IF IsSome(jsonMatch) /\ JsonParses(Get(jsonMatch))
    THEN [selectedProductIds |-> out.ids,
          selectionType |-> out.idsType,
          cleanedContent |-> RemoveCodeBlock(RemoveBareObject(out.tokens))]
    ELSE [selectedProductIds |-> <<>>, selectionType |-> "array",
          cleanedContent |-> out.tokens]

\* selectedProductIds.length > 0 followed by selectedProductIds.map : a non-empty string
\* has a length and no map, so the call raises a TypeError; a number or an object has no
\* length and takes the other branch
SelectionThrows(sel) == sel.selectionType = "string"

\* selectedProductIds.map(id => list[id - 1]).filter(Boolean)
RECURSIVE MapSelected(_, _)
MapSelected(ids, list) ==
    IF Len(ids) = 0 THEN <<>>
    ELSE (IF Head(ids) \in 1..Len(list) THEN <<list[Head(ids)]>> ELSE <<>>)
         \o MapSelected(Tail(ids), list)

ProductSliceCount(parsed) ==
    IF IsSome(parsed.intent) /\ Get(parsed.intent).productCount = "single" THEN 1
    ELSE IF IsSome(parsed.intent) /\ Get(parsed.intent).productCount = "comparison" THEN 3
    ELSE 5

\* Step 6 of POST
DisplayProducts(selectedProductIds, candidates, parsed) ==
    IF Len(selectedProductIds) > 0 THEN MapSelected(selectedProductIds, candidates)
    ELSE Slice(candidates, ProductSliceCount(parsed))

\* displayProducts of the follow-up branch
FollowUpDisplayProducts(selectedProductIds, previousProducts) ==
    IF Len(selectedProductIds) > 0 THEN MapSelected(selectedProductIds, previousProducts)
    ELSE previousProducts

\* queryLLM: the backend tried first and the one tried after it failed
PreferredBackend(provider) == IF provider = "openai" THEN "openai" ELSE "gemini"
\* faulty variant of FallbackBackend: the backend that just failed is tried again
SameBackend(provider) == IF provider = "openai" THEN "openai" ELSE "gemini"

FallbackBackend(provider) == IF provider = "openai" THEN "gemini" ELSE "openai"

-----------------------------------------------------------------------------
(* Inputs of the model *)

MaxMatches == 3   \* most matches one index answer carries

Product(id, lo, hi, cat) == [id |-> id, price_min |-> lo, price_max |-> hi, category |-> cat]

\* items attached to earlier assistant turns
H1 == Product("H1", 50000, 55000, "Laptop/Gaming")
H2 == Product("H2", 30000, 32000, "Laptop")
H3 == Product("H3", 700, 900, "Accessories/Keyboard")

UserTurn(text) == [role |-> "user", content |-> text, products |-> None]
AssistantTurn(text, items) == [role |-> "assistant", content |-> text, products |-> items]

Histories ==
    { <<>>,
      <<UserTurn("show laptops"), AssistantTurn("two laptops", Some(<<H1, H2>>))>>,
      <<UserTurn("show laptops"), AssistantTurn("three items", Some(<<H1, H2, H3>>)),
        UserTurn("anything cheaper"), AssistantTurn("nothing found", Some(<<>>))>>,
      <<UserTurn("hi there"), AssistantTurn("welcome", None)>> }

Messages ==
    { "", "Hello!", "thanks", "hello laptop", "which one is better",
      "gaming laptop", "laptop keyboard", "wireless speaker" }

Providers == {"gemini", "openai"}
EmbeddingModels == {"openai", "huggingface"}

FilterState(price, cats, brands, source) ==
    [priceRange |-> price, categories |-> cats, brands |-> brands, source |-> source]

FilterStates ==
    { FilterState(Some(<<0, 200000>>), Some(<<>>), Some(<<>>), Some(<<>>)),
      FilterState(Some(<<0, 40000>>), Some(<<"laptop">>), Some(<<"HP">>), Some(<<"StarTech">>)),
      FilterState(None, None, Some(<<"Dell">>), None) }

\* the filters field of the request body: absent, or a FilterState
RequestFilters == {None} \cup {Some(f) : f \in FilterStates}

H4 == Product("H4", 60000, 65000, "Laptop")
H5 == Product("H5", 70000, 75000, "Laptop")
H6 == Product("H6", 80000, 85000, "Laptop")

\* requests beyond the combinations above: a follow-up on an assistant turn that
\* displayed six items, and a body whose embeddingModel is neither declared value
\* (POST casts the field without validating it)
ExtraRequests ==
    { [message |-> "which one is better", provider |-> "gemini",
       embeddingModel |-> "openai", filters |-> None,
       conversationHistory |->
           <<UserTurn("show laptops"),
             AssistantTurn("six laptops", Some(<<H1, H2, H3, H4, H5, H6>>))>>],
      [message |-> "wireless speaker", provider |-> "gemini",
       embeddingModel |-> "cohere",
       filters |-> Some(FilterState(Some(<<0, 200000>>), Some(<<>>), Some(<<>>), Some(<<>>))),
       conversationHistory |-> <<>>] }

\* messages.slice(-20) of handleSend: the turns the client sends along
CLIENT_HISTORY_TURNS == 20

\* a history the client would not send whole: an exchange that displayed two items,
\* followed by twenty turns without items
LongHistory ==
    <<UserTurn("show laptops"), AssistantTurn("two laptops", Some(<<H1, H2>>))>>
    \o [i \in 1..CLIENT_HISTORY_TURNS |->
            IF i % 2 = 1 THEN UserTurn("hi there") ELSE AssistantTurn("welcome", None)]

\* requests posted to the endpoint with that history
LongHistoryRequests ==
    { [message |-> m, provider |-> "gemini", embeddingModel |-> "openai",
       filters |-> None, conversationHistory |-> LongHistory] :
      m \in {"which one is better", "wireless speaker"} }

Requests ==
    [message : Messages, provider : Providers, embeddingModel : EmbeddingModels,
     filters : RequestFilters, conversationHistory : Histories]
    \cup ExtraRequests \cup LongHistoryRequests

Criteria(price, brands, cats, sources, intent) ==
    [priceRange |-> price, brands |-> brands, categories |-> cats,
     sources |-> sources, intent |-> intent]

Intent(count, action) == Some([productCount |-> count, action |-> action])

\* what the generator call of parseQuery may produce
ParseReplies ==
    { [kind |-> "error"],
      [kind |-> "text"],
      [kind |-> "null"],
      [kind |-> "object", v |-> Criteria(None, None, None, None, None)],
      [kind |-> "object", v |-> Criteria(Some(<<0, 15000>>), None, None, None,
                                         Intent("single", "find"))],
      [kind |-> "object", v |-> Criteria(Some(<<0, 27000>>), None, None, None,
                                         Intent("multiple", "find"))],
      [kind |-> "object", v |-> Criteria(Some(<<0, 0>>), None, None, None, None)],
      [kind |-> "object", v |-> Criteria(Some(<<40000, 20000>>), None, None, None, None)],
      [kind |-> "object", v |-> Criteria(Some(<<25000, 40000>>), None, Some(<<"laptop">>), None,
                                         Intent("comparison", "compare"))],
      [kind |-> "object", v |-> Criteria(None, Some(<<"HP", "HP">>), None, Some(<<"Daraz">>),
                                         Intent("any", "info"))] }

Match(id, score, lo, hi, cat) ==
    [id |-> id, score |-> score, price_min |-> lo, price_max |-> hi, category |-> cat]

\* records the index may hold, best score first
Catalog ==
    << Match("A", Some(92), Some(20000), Some(45000), Some("Laptop/Gaming")),
       Match("B", Some(85), Some(30000), Some(35000), Some("Laptop")),
       Match("C", Some(70), None, None, None),
       Match("D", Some(45), Some(700), Some(900), Some("Accessories/Keyboard")),
       Match("E", None, Some(12000), Some(14000), Some("Laptop/Used")) >>

\* the subsequence of s at the positions in idx
RECURSIVE Pick(_, _)
Pick(s, idx) ==
    IF Len(s) = 0 THEN <<>>
    ELSE Pick(SubSeq(s, 1, Len(s) - 1), idx)
         \o (IF Len(s) \in idx THEN <<s[Len(s)]>> ELSE <<>>)

\* answers of the index to a query for topK matches: any records, best first
IndexAnswers(topK) ==
    {Pick(Catalog, idx) : idx \in {S \in SUBSET (1..Len(Catalog)) :
                                      Cardinality(S) <= MaxMatches /\ Cardinality(S) <= topK}}

\* tokens is the text; ids is the value of selected_product_ids when it is an array of
\* numbers; idsType tells an array from a non-empty string and from a number
LLMOutput(tokens, ids) == [tokens |-> tokens, ids |-> ids, idsType |-> "array"]

NonArrayOutput(tokens, type) == [tokens |-> tokens, ids |-> <<>>, idsType |-> type]

SelectionLists == { <<>>, <<1>>, <<2, 1>>, <<1, 3>>, <<0, 4>>, <<-1, 2>> }

\* what a generator backend may answer
LLMOutputs ==
    {LLMOutput(<<"txt", "{", "key", "}">>, ids) : ids \in SelectionLists}
    \cup { LLMOutput(<<"txt">>, <<>>),
           LLMOutput(<<"txt", "fence-json", "{", "key", "}", "fence">>, <<1>>),
           LLMOutput(<<"txt", "{", "txt", "}", "txt", "{", "key", "}">>, <<1>>),
           LLMOutput(<<"txt", "{", "key", "txt", "}">>, <<2>>),
           NonArrayOutput(<<"txt", "{", "key", "}">>, "string"),
           NonArrayOutput(<<"txt", "{", "key", "}">>, "number") }

-----------------------------------------------------------------------------
(* The POST handler *)

TOP_K == 8   \* limit POST passes to searchProducts

NoRequest ==
    [message |-> "", provider |-> "gemini", embeddingModel |-> "openai",
     filters |-> None, conversationHistory |-> <<>>]

NoIndexQuery ==
    [vector |-> "", namespace |-> None, topK |-> 0, filter |-> PineconeFilter(
        [priceRange |-> None, categories |-> None, brands |-> None, sources |-> None])]

\* NextResponse.json({message: {content, products}, metadata: {...}})
Success(content, items, provider, model, productsFound) ==
    Some([status |-> 200, error |-> "", details |-> <<>>, content |-> content,
          products |-> items, provider |-> provider, model |-> model,
          productsFound |-> productsFound])

\* NextResponse.json({error, details}, {status})
Failure(status, error, details) ==
    Some([status |-> status, error |-> error, details |-> details, content |-> <<>>,
          products |-> <<>>, provider |-> "", model |-> "", productsFound |-> 0])

\* history.slice(-8) of formatConversationHistory
HISTORY_CONTEXT_TURNS == 8

RecentHistory(history) ==
    SubSeq(history,
           IF Len(history) > HISTORY_CONTEXT_TURNS
           THEN Len(history) - HISTORY_CONTEXT_TURNS + 1 ELSE 1,
           Len(history))

\* formatConversationHistory: one entry per turn kept, with the role, the content and
\* the items listed after an assistant turn that carried some
FormatConversationHistory(history) ==
    LET recentHistory == RecentHistory(history)
        ProductsShown(msg) ==
            IF msg.role = "assistant" /\ IsSome(msg.products) /\ Len(Get(msg.products)) > 0
            THEN Get(msg.products) ELSE <<>>
    IN [i \in 1..Len(recentHistory) |->
            [role |-> IF recentHistory[i].role = "user" THEN "User" ELSE "Assistant",
             content |-> recentHistory[i].content,
             shown |-> ProductsShown(recentHistory[i])]]

\* intentContext of Step 3
IntentContext(parsed) ==
    IF parsed.intent = None THEN <<>>
    ELSE <<Get(parsed.intent).productCount, Get(parsed.intent).action>>

\* fullContext of Step 3: buildContext(products) + intentContext + conversationContext
FullContext(found, parsed, history) ==
    [productContext |-> found,
     intentContext |-> IntentContext(parsed),
     conversationContext |-> FormatConversationHistory(history)]

\* fullContext + intentHint of the follow-up branch
FollowUpContext(previousProducts, history) ==
    [productContext |-> previousProducts,
     intentContext |-> <<"follow-up">>,
     conversationContext |-> FormatConversationHistory(history)]

\* the arguments POST hands to queryLLM
QueryLLMArgs(message, context) ==
    [systemPrompt |-> "SYSTEM_PROMPT", userMessage |-> message, context |-> context]

Init ==
    /\ pc = "idle"
    /\ req = NoRequest
    /\ route = "none"
    /\ parsedQuery = EmptyParsedQuery
    /\ mergedFilters = EmptyFilters
    /\ indexQuery = NoIndexQuery
    /\ limit = 0
    /\ products = <<>>
    /\ llmOut = None
    /\ llmErrors = <<>>
    /\ resp = None
    /\ calls = <<>>
    /\ llmArgs = <<>>
    /\ conversations = <<>>
    /\ currentConversationId = None
    /\ created = 0
    /\ lastSaved = None
    /\ now = 0

\* the state a new request starts from
Fresh(r) ==
    /\ req' = r
    /\ parsedQuery' = EmptyParsedQuery
    /\ mergedFilters' = EmptyFilters
    /\ indexQuery' = NoIndexQuery
    /\ limit' = 0
    /\ llmOut' = None
    /\ llmErrors' = <<>>

\* POST up to its first await: validation, casual short-circuit, follow-up decision.
\* Requests share no state, so a behaviour follows one request from arrival to response.
Receive(r) ==
    /\ pc = "idle"
    /\ Fresh(r)
    /\ IF r.message = ""
       THEN /\ route' = "invalid"
            /\ resp' = Failure(400, "Message is required", <<>>)
            /\ products' = <<>>
            /\ calls' = <<>>
            /\ StoreUnchanged
            /\ llmArgs' = <<>>
            /\ pc' = "done"
       ELSE IF IsCasualMessage(r.message)
       THEN /\ route' = "casual"
            /\ \E text \in (IF Includes(ToLowerCase(r.message), "thank")
                            THEN {"you-are-welcome"}
                            ELSE {"casualResponses[0]", "casualResponses[1]",
                                  "casualResponses[2]"}) :
                 resp' = Success(<<text>>, <<>>, "system", "casual-response", 0)
            /\ products' = <<>>
            /\ calls' = <<>>
            /\ StoreUnchanged
            /\ llmArgs' = <<>>
            /\ pc' = "done"
       ELSE IF /\ ShouldUseConversationHistory(r.message, r.conversationHistory)
               /\ Len(PreviousProducts(r.conversationHistory)) > 0
       THEN /\ route' = "followup"
            /\ products' = PreviousProducts(r.conversationHistory)
            /\ calls' = <<"generate:" \o PreferredBackend(r.provider)>>
            /\ StoreUnchanged
            /\ llmArgs' = <<QueryLLMArgs(r.message,
                              FollowUpContext(PreviousProducts(r.conversationHistory),
                                              r.conversationHistory))>>
            /\ resp' = None
            /\ pc' = "queryLLM"
       ELSE /\ route' = "fresh"
            /\ products' = <<>>
            /\ calls' = <<"interpret">>
            /\ StoreUnchanged
            /\ llmArgs' = <<>>
            /\ resp' = None
            /\ pc' = "parseQuery"

\* userQuery tests of the budget guard
IsLookingForCompleteSystem(message) ==
    LET userQuery == ToLowerCase(message) IN
    \E w \in {"laptop", "desktop", "pc", "computer"} : Includes(userQuery, w)

IsLookingForAccessories(message) ==
    LET userQuery == ToLowerCase(message) IN
    \E w \in {"keyboard", "mouse", "cable", "accessory", "part"} : Includes(userQuery, w)

UNREALISTIC_BUDGET == 25000

\* mergedFilters?.priceRange || [0, 200000]
PriceRangeOf(merged) == OrElse(merged.priceRange, <<0, UNRESTRICTED_MAX_PRICE>>)

\* faulty variant of BudgetGuard: the lower bound of the interval is tested
BudgetGuardOnMinPrice(message, merged) ==
    /\ IsLookingForCompleteSystem(message)
    /\ ~IsLookingForAccessories(message)
    /\ PriceRangeOf(merged)[1] > 0
    /\ PriceRangeOf(merged)[1] < UNREALISTIC_BUDGET

BudgetGuard(message, merged) ==
    /\ IsLookingForCompleteSystem(message)
    /\ ~IsLookingForAccessories(message)
    /\ PriceRangeOf(merged)[2] > 0
    /\ PriceRangeOf(merged)[2] < UNREALISTIC_BUDGET

ProductType(message) ==
    IF Includes(ToLowerCase(message), "desktop") \/ Includes(ToLowerCase(message), "pc")
    THEN "desktop" ELSE "laptop"

\* searchFilters built in Step 2
SearchFilters(merged) ==
    [priceRange |-> merged.priceRange, categories |-> merged.categories,
     brands |-> merged.brands, sources |-> merged.source]

\* parseQuery resolved: merge, budget guard, then the embedding call
ParseQueryReturns(reply) ==
    /\ pc = "parseQuery"
    /\ LET parsed == ParseQuery(reply)
           m == MergeFilters(req.filters, parsed)
       IN /\ parsedQuery' = parsed
          /\ mergedFilters' = m.merged
          /\ IF m.threw
             THEN /\ resp' = Failure(500, "Internal server error", <<"TypeError">>)
                  /\ pc' = "done"
                  /\ calls' = calls
                  /\ StoreUnchanged
                  /\ llmArgs' = llmArgs
             ELSE IF BudgetGuard(req.message, m.merged)
             THEN /\ resp' = Success(<<"unrealistic-budget:" \o ProductType(req.message)>>,
                                     <<>>, "system", "unrealistic-budget", 0)
                  /\ pc' = "done"
                  /\ calls' = calls
                  /\ StoreUnchanged
                  /\ llmArgs' = llmArgs
             ELSE /\ resp' = None
                  /\ pc' = "generateEmbedding"
                  /\ calls' = Append(calls, "embed")
                  /\ StoreUnchanged
                  /\ llmArgs' = llmArgs
    /\ UNCHANGED <<req, route, indexQuery, limit, products, llmOut, llmErrors>>

\* generateEmbedding: the space whose model produced the vector
EmbeddingSpace(model) == IF model = "openai" THEN "openai" ELSE "huggingface"

EmbeddingReturns ==
    /\ pc = "generateEmbedding"
    /\ indexQuery' = [vector |-> EmbeddingSpace(req.embeddingModel)]
                     @@ BuildIndexQuery(SearchFilters(mergedFilters), TOP_K, req.embeddingModel)
    /\ limit' = TOP_K
    /\ calls' = Append(calls, "search")
    /\ StoreUnchanged
    /\ llmArgs' = llmArgs
    /\ pc' = "searchProducts"
    /\ UNCHANGED <<req, route, parsedQuery, mergedFilters, products, llmOut, llmErrors, resp>>

\* faulty variant of EmbeddingFails: the index is searched although no vector was
\* obtained
EmbeddingFailsSearches ==
    /\ pc = "generateEmbedding"
    /\ indexQuery' = [vector |-> ""]
                     @@ BuildIndexQuery(SearchFilters(mergedFilters), TOP_K, req.embeddingModel)
    /\ limit' = TOP_K
    /\ calls' = Append(calls, "search")
    /\ StoreUnchanged
    /\ llmArgs' = llmArgs
    /\ pc' = "searchProducts"
    /\ UNCHANGED <<req, route, parsedQuery, mergedFilters, products, llmOut, llmErrors, resp>>

\* generateEmbedding threw: Step 1's catch answers 500
EmbeddingFails ==
    /\ pc = "generateEmbedding"
    /\ resp' = Failure(500, "Failed to generate embedding", <<"embedding">>)
    /\ pc' = "done"
    /\ UNCHANGED <<req, route, parsedQuery, mergedFilters, indexQuery, limit, products, llmOut,
                   llmErrors, calls, llmArgs>>
    /\ StoreUnchanged

\* the guidance of the no-results branch
NoResultsText(priceRange) ==
    LET minPrice == priceRange[1]
        maxPrice == priceRange[2]
    IN IF maxPrice < UNRESTRICTED_MAX_PRICE /\ maxPrice > 0
       THEN (IF maxPrice < 10000 THEN "no-results:accessories-only"
             ELSE IF maxPrice < 30000 THEN "no-results:laptops-start-at-30000"
             ELSE "no-results:20-percent-above")
       ELSE IF minPrice > 0 THEN "no-results:lower-minimum"
       ELSE "no-results:adjust-filters"

\* faulty variant of SearchReturns: the generator is called whatever was found
SearchReturnsAlwaysGenerates(matches) ==
    /\ pc = "searchProducts"
    /\ LET found == SearchProducts(matches, SearchFilters(mergedFilters), limit,
                                   req.embeddingModel)
       IN /\ products' = found
          /\ resp' = None
          /\ pc' = "queryLLM"
          /\ calls' = Append(calls, "generate:" \o PreferredBackend(req.provider))
          /\ StoreUnchanged
          /\ llmArgs' = Append(llmArgs,
                            QueryLLMArgs(req.message,
                                FullContext(found, parsedQuery, req.conversationHistory)))
    /\ UNCHANGED <<req, route, parsedQuery, mergedFilters, indexQuery, limit, llmOut, llmErrors>>

\* the index answered: post-filtering, then no-results or the generator call
SearchReturns(matches) ==
    /\ pc = "searchProducts"
    /\ LET found == SearchProducts(matches, SearchFilters(mergedFilters), limit,
                                   req.embeddingModel)
       IN /\ products' = found
          /\ IF Len(found) = 0
             THEN /\ resp' = Success(<<NoResultsText(PriceRangeOf(mergedFilters))>>, <<>>,
                                     "system", "no-results", 0)
                  /\ pc' = "done"
                  /\ calls' = calls
                  /\ StoreUnchanged
                  /\ llmArgs' = llmArgs
             ELSE /\ resp' = None
                  /\ pc' = "queryLLM"
                  /\ calls' = Append(calls, "generate:" \o PreferredBackend(req.provider))
                  /\ StoreUnchanged
                  /\ llmArgs' = Append(llmArgs,
                                    QueryLLMArgs(req.message,
                                        FullContext(found, parsedQuery, req.conversationHistory)))
    /\ UNCHANGED <<req, route, parsedQuery, mergedFilters, indexQuery, limit, llmOut, llmErrors>>

\* faulty variant of SearchFails: an index error answered as if nothing was found
SearchFailsSilently ==
    /\ pc = "searchProducts"
    /\ resp' = Success(<<NoResultsText(PriceRangeOf(mergedFilters))>>, <<>>,
                       "system", "no-results", 0)
    /\ pc' = "done"
    /\ UNCHANGED <<req, route, parsedQuery, mergedFilters, indexQuery, limit, products, llmOut,
                   llmErrors, calls, llmArgs>>
    /\ StoreUnchanged

\* searchProducts threw: Step 2's catch answers 500
SearchFails ==
    /\ pc = "searchProducts"
    /\ resp' = Failure(500, "Failed to search products", <<"Vector search failed">>)
    /\ pc' = "done"
    /\ UNCHANGED <<req, route, parsedQuery, mergedFilters, indexQuery, limit, products, llmOut,
                   llmErrors, calls, llmArgs>>
    /\ StoreUnchanged

\* Steps 5 and 6 and the response, for the output of backend
Resolve(out, backend) ==
    LET sel == ParseSelection(out)
        shown == IF route = "followup"
                 THEN FollowUpDisplayProducts(sel.selectedProductIds, products)
                 ELSE DisplayProducts(sel.selectedProductIds, products, parsedQuery)
    IN /\ llmOut' = Some(out)
       /\ resp' = IF SelectionThrows(sel)
                  THEN (IF route = "followup"
                        THEN Failure(500, "Failed to generate response",
                                     <<"map is not a function">>)
                        ELSE Failure(500, "Internal server error",
                                     <<"map is not a function">>))
                  ELSE Success(sel.cleanedContent, shown, backend, backend,
                               IF route = "followup" THEN Len(shown) ELSE Len(products))
       /\ pc' = "done"

LLMReturns(out) ==
    /\ pc = "queryLLM"
    /\ Resolve(out, PreferredBackend(req.provider))
    /\ UNCHANGED <<req, route, parsedQuery, mergedFilters, indexQuery, limit, products, llmErrors,
                   calls, llmArgs>>
    /\ StoreUnchanged

\* the preferred backend threw: the other backend is called
LLMFails ==
    /\ pc = "queryLLM"
    /\ llmErrors' = Append(llmErrors, PreferredBackend(req.provider))
    /\ calls' = Append(calls, "generate:" \o FallbackBackend(req.provider))
    /\ StoreUnchanged
    /\ llmArgs' = Append(llmArgs, llmArgs[Len(llmArgs)])
    /\ pc' = "queryLLMFallback"
    /\ UNCHANGED <<req, route, parsedQuery, mergedFilters, indexQuery, limit, products, llmOut, resp>>

LLMFallbackReturns(out) ==
    /\ pc = "queryLLMFallback"
    /\ Resolve(out, FallbackBackend(req.provider))
    /\ UNCHANGED <<req, route, parsedQuery, mergedFilters, indexQuery, limit, products, llmErrors,
                   calls, llmArgs>>
    /\ StoreUnchanged

\* Both LLM providers failed. OpenAI: ${error.message}, Gemini: ${fallbackError.message}
LLMFallbackFails ==
    /\ pc = "queryLLMFallback"
    /\ llmErrors' = Append(llmErrors, FallbackBackend(req.provider))
    /\ resp' = Failure(500, "Failed to generate response",
                       <<[label |-> "OpenAI", cause |-> llmErrors[1]],
                         [label |-> "Gemini", cause |-> FallbackBackend(req.provider)]>>)
    /\ pc' = "done"
    /\ UNCHANGED <<req, route, parsedQuery, mergedFilters, indexQuery, limit, products, llmOut, calls, llmArgs>>
    /\ StoreUnchanged

\* a request arrives
HandleRequest == pc = "idle" /\ \E r \in Requests : Receive(r)

\* the generator call of parseQuery settles
Interpret == pc = "parseQuery" /\ \E reply \in ParseReplies : ParseQueryReturns(reply)

\* the index answers
Search ==
    pc = "searchProducts" /\ \E matches \in IndexAnswers(indexQuery.topK) : SearchReturns(matches)

\* the preferred backend answers
Generate == pc = "queryLLM" /\ \E out \in LLMOutputs : LLMReturns(out)

\* the fallback backend answers
GenerateFallback == pc = "queryLLMFallback" /\ \E out \in LLMOutputs : LLMFallbackReturns(out)

Next ==
    \/ HandleRequest
    \/ Interpret
    \/ EmbeddingReturns
    \/ EmbeddingFails
    \/ Search
    \/ SearchFails
    \/ Generate
    \/ LLMFails
    \/ GenerateFallback
    \/ LLMFallbackFails

Spec == Init /\ [][Next]_vars

-----------------------------------------------------------------------------
(* Claims about the responses of the POST handler *)

\* the response is a success carrying displayed items
Responded == pc = "done" /\ IsSome(resp) /\ Get(resp).status = 200

\* the items the response displays
Displayed == IF IsSome(resp) THEN Get(resp).products ELSE <<>>

\* the price interval in force for the request: the interpreted criteria's interval
\* when present, otherwise the interval of the request's FilterState
IntervalInForce ==
    IF IsSome(parsedQuery.priceRange) THEN parsedQuery.priceRange
    ELSE IF IsSome(req.filters) THEN Get(req.filters).priceRange
    ELSE None

WithinInterval(p, interval) == p.price_min >= interval[1] /\ p.price_max <= interval[2]

\* C1: in every response, on every route, each displayed item lies inside the price
\* interval in force for the request (price_min >= lower bound and price_max <= upper
\* bound), items reused from an earlier assistant turn included.
C1_Claim ==
    (Responded /\ IsSome(IntervalInForce)) =>
        \A i \in 1..Len(Displayed) : WithinInterval(Displayed[i], Get(IntervalInForce))

\* the generator output the response was resolved from carries a selection object
\* that JSON.parse accepts
SelectionParsed ==
    /\ IsSome(llmOut)
    /\ IsSome(JsonMatch(Get(llmOut).tokens))
    /\ JsonParses(Get(JsonMatch(Get(llmOut).tokens)))

\* the candidates the references of the selection object point at
Referenced == {products[r] : r \in Range(Get(llmOut).ids) \cap (1..Len(products))}

\* C2: whenever the generator output contains a parsable selection object, every
\* displayed item is one the object references, and an empty selection displays zero
\* items, on the fresh path and on the follow-up path.
C2_Claim ==
    (Responded /\ SelectionParsed) =>
        /\ Range(Displayed) \subseteq Referenced
        /\ (Get(llmOut).ids = <<>> => Displayed = <<>>)

\* C3: every item searchProducts returns while a price interval [min, max] is supplied
\* satisfies price_min >= min and price_max <= max, whatever the index answered
\* (candidates straddling a bound and candidates without price metadata included).
C3_Theorem ==
    (route = "fresh" /\ HasPriceRange(SearchFilters(mergedFilters))) =>
        \A i \in 1..Len(products) :
            /\ products[i].price_min >= Get(mergedFilters.priceRange)[1]
            /\ products[i].price_max <= Get(mergedFilters.priceRange)[2]

\* the retriever answered under the interval [0, 27000] with the record that has no
\* price metadata and the accessory, cheapest first
C3_Witness ==
    /\ route = "fresh"
    /\ pc = "queryLLM"
    /\ mergedFilters.priceRange = Some(<<0, 27000>>)
    /\ Len(products) = 2
    /\ products[1].id = "C" /\ products[1].price_max = 0
    /\ products[2].id = "D"

-----------------------------------------------------------------------------
(* mergeFilters on its own: every pair of a sidebar FilterState (or none) and *)
(* interpreted criteria                                                       *)

MergePrices == {None, Some(<<0, 40000>>), Some(<<10000, 20000>>)}

MergeSidebars ==
    {None} \cup
    {Some(FilterState(price, cats, brands, source)) :
        price \in MergePrices,
        cats \in {None, Some(<<>>), Some(<<"laptop", "monitor">>)},
        brands \in {None, Some(<<>>), Some(<<"Dell", "HP">>)},
        source \in {None, Some(<<>>), Some(<<"StarTech">>)}}

MergeCriteria ==
    {Criteria(price, brands, cats, sources, None) :
        price \in MergePrices,
        brands \in {None, Some(<<>>), Some(<<"HP", "Asus", "HP">>), Some(<<"Lenovo">>)},
        cats \in {None, Some(<<>>), Some(<<"monitor", "gaming">>)},
        sources \in {None, Some(<<>>), Some(<<"Daraz">>)}}

\* one call mergeFilters(sidebarFilters, parsedFilters): the arguments are kept in
\* req.filters and parsedQuery, the value returned in mergedFilters
ApplyMergeFilters(sidebarFilters, parsedFilters) ==
    /\ pc = "idle"
    /\ req' = [req EXCEPT !.filters = sidebarFilters]
    /\ parsedQuery' = parsedFilters
    /\ LET m == MergeFilters(sidebarFilters, parsedFilters)
       IN /\ mergedFilters' = m.merged
          /\ resp' = IF m.threw THEN Failure(500, "Internal server error", <<"TypeError">>)
                     ELSE None
    /\ pc' = "done"
    /\ UNCHANGED <<route, indexQuery, limit, products, llmOut, llmErrors, calls, llmArgs>>
    /\ StoreUnchanged

NextMerge ==
    \E sidebarFilters \in MergeSidebars, parsedFilters \in MergeCriteria :
        ApplyMergeFilters(sidebarFilters, parsedFilters)

SpecMerge == Init /\ [][NextMerge]_vars

\* the criteria supply a list field: it is present and not empty
Supplies(field) == IsSome(field) /\ Len(Get(field)) > 0

\* mergeFilters returned for a request that carries a FilterState
Merged == pc = "done" /\ IsSome(req.filters) /\ resp = None

\* C4: price and source follow replace-or-pass-through: the merged price is the
\* criteria's interval when the criteria supply one and the FilterState's price
\* otherwise; the merged source is the criteria's sources when supplied and the
\* FilterState's source otherwise.
C4_Theorem ==
    Merged =>
        /\ IsSome(parsedQuery.priceRange) => mergedFilters.priceRange = parsedQuery.priceRange
        /\ ~IsSome(parsedQuery.priceRange) =>
               mergedFilters.priceRange = Get(req.filters).priceRange
        /\ Supplies(parsedQuery.sources) => mergedFilters.source = parsedQuery.sources
        /\ ~Supplies(parsedQuery.sources) => mergedFilters.source = Get(req.filters).source

\* the criteria's interval replaced the sidebar's while the sidebar's source passed through
C4_Witness ==
    /\ Merged
    /\ Get(req.filters).priceRange = Some(<<0, 40000>>)
    /\ parsedQuery.priceRange = Some(<<10000, 20000>>)
    /\ mergedFilters.priceRange = Some(<<10000, 20000>>)
    /\ parsedQuery.sources = None
    /\ mergedFilters.source = Some(<<"StarTech">>)

\* list is the duplicate-free union of the lists a and b
IsUnionOf(list, a, b) ==
    /\ Range(list) = Range(a) \cup Range(b)
    /\ Cardinality(Range(list)) = Len(list)

\* C5: the merged brand list and the merged category list are each the duplicate-free
\* union of the FilterState list and the criteria list when the criteria supply the
\* field, and the FilterState list unchanged when the criteria omit it.
C5_Theorem ==
    Merged =>
        /\ Supplies(parsedQuery.brands) =>
               /\ IsSome(mergedFilters.brands)
               /\ IsUnionOf(Get(mergedFilters.brands),
                            OrElse(Get(req.filters).brands, <<>>), Get(parsedQuery.brands))
        /\ ~Supplies(parsedQuery.brands) => mergedFilters.brands = Get(req.filters).brands
        /\ Supplies(parsedQuery.categories) =>
               /\ IsSome(mergedFilters.categories)
               /\ IsUnionOf(Get(mergedFilters.categories),
                            OrElse(Get(req.filters).categories, <<>>),
                            Get(parsedQuery.categories))
        /\ ~Supplies(parsedQuery.categories) =>
               mergedFilters.categories = Get(req.filters).categories

\* overlapping brand lists were united while the omitted categories passed through
C5_Witness ==
    /\ Merged
    /\ Get(req.filters).brands = Some(<<"Dell", "HP">>)
    /\ parsedQuery.brands = Some(<<"HP", "Asus", "HP">>)
    /\ mergedFilters.brands = Some(<<"Dell", "HP", "Asus">>)
    /\ parsedQuery.categories = None
    /\ mergedFilters.categories = Some(<<"laptop", "monitor">>)

-----------------------------------------------------------------------------
(* Claims about the merge step and the router of the POST handler *)

\* POST has called mergeFilters(filters, parsedQuery) for the request
MergeStepTaken == route = "fresh" /\ pc \notin {"idle", "parseQuery"}

\* C6: mergeFilters is total: for every pair the handler passes it, a request without
\* any FilterState whose criteria supply brands or categories included, it returns a
\* merged filter and raises nothing.
C6_Claim ==
    MergeStepTaken =>
        /\ ~MergeFilters(req.filters, parsedQuery).threw
        /\ resp # Failure(500, "Internal server error", <<"TypeError">>)

\* messages and histories for the router on its own
RouteMessages ==
    Messages \cup
    { "  HELLO  ", "hey?", "good morning!", "hello there", "hello.", "Thanks!", "thanks?",
      "bye", "what's up", "How are you?", "hi gaming", "ok", "compare them",
      "is the first laptop better", "please tell me more about the cheap one" }

RouteHistories ==
    Histories \cup
    { <<UserTurn("show laptops"), AssistantTurn("two laptops", Some(<<H1, H2>>)),
        UserTurn("and keyboards"), AssistantTurn("one keyboard", Some(<<H3>>))>>,
      <<AssistantTurn("two laptops", Some(<<H1, H2>>)),
        [role |-> "user", content |-> "this one", products |-> Some(<<H3>>)]>> }

RouteRequests ==
    [message : RouteMessages, provider : {"gemini"}, embeddingModel : {"openai"},
     filters : {None}, conversationHistory : RouteHistories]

\* POST up to the routing decision
NextRoute == \E r \in RouteRequests : Receive(r)

SpecRoute == Init /\ [][NextRoute]_vars

PunctuationChars == {"!", "?", ".", ","}

RECURSIVE StripTrailingPunctuation(_)
StripTrailingPunctuation(s) ==
    IF Len(s) > 0 /\ CharAt(s, Len(s)) \in PunctuationChars
    THEN StripTrailingPunctuation(SubSeq(s, 1, Len(s) - 1))
    ELSE s

\* the message without case, surrounding whitespace and trailing punctuation
Normalised(message) == Trim(StripTrailingPunctuation(Trim(ToLowerCase(message))))

HasProductDomainKeyword(message) ==
    \E k \in CasualProductKeywords : Includes(ToLowerCase(message), k)

\* C7: a message is routed Casual only if, ignoring case, surrounding whitespace and
\* trailing punctuation, it equals a greeting, small-talk, thanks or farewell phrase and
\* contains no product-domain keyword; a message containing a product-domain keyword is
\* never routed Casual, whatever the history.
C7_Theorem ==
    route # "none" =>
        /\ route = "casual" =>
               /\ Normalised(req.message) \in
                      Greetings \cup CasualPhrases \cup ThanksPhrases \cup GoodbyePhrases
               /\ ~HasProductDomainKeyword(req.message)
        /\ HasProductDomainKeyword(req.message) => route # "casual"

\* a greeting in capitals with surrounding blanks was answered casually although the
\* history carries items
C7_Witness ==
    /\ route = "casual"
    /\ req.message = "  HELLO  "
    /\ Len(req.conversationHistory) = 4
    /\ Get(resp).model = "casual-response"

\* the number of words of the message
WordCount(s) ==
    Cardinality({i \in 1..Len(s) :
                    /\ ~IsWhitespace(CharAt(s, i))
                    /\ (i = 1 \/ IsWhitespace(CharAt(s, i - 1)))})

\* the contextual classification: a short message with a cue word and no product
\* keyword, or a message containing an explicit follow-up phrase
IsFollowUpMessage(message) ==
    LET text == ToLowerCase(message) IN
    \/ /\ WordCount(text) <= 5
       /\ \E cue \in ContextTriggers : Includes(text, cue)
       /\ ~\E k \in ContextProductKeywords : Includes(text, k)
    \/ \E phrase \in FollowUpPhrases : Includes(text, phrase)

\* positions of the assistant turns of the history that carry at least one item
ItemTurns(history) ==
    {i \in 1..Len(history) :
        /\ history[i].role = "assistant"
        /\ history[i].products # None
        /\ Get(history[i].products) # <<>>}

Max(S) == CHOOSE x \in S : \A y \in S : x >= y

\* C8: with an empty history no message is routed Contextual; with a non-empty history
\* a follow-up message (one that is not casual) is routed Contextual with the items of
\* the most recent assistant turn that carried at least one item, and is handled as a
\* fresh query, starting with the interpretation call, when no turn carried items.
C8_Theorem ==
    route # "none" =>
        /\ req.conversationHistory = <<>> => route # "followup"
        /\ (/\ req.conversationHistory # <<>>
            /\ route \notin {"invalid", "casual"}
            /\ IsFollowUpMessage(req.message)) =>
               IF ItemTurns(req.conversationHistory) # {}
               THEN /\ route = "followup"
                    /\ products =
                         Get(req.conversationHistory[
                                 Max(ItemTurns(req.conversationHistory))].products)
                    /\ calls = <<"generate:" \o PreferredBackend(req.provider)>>
               ELSE /\ route = "fresh"
                    /\ calls = <<"interpret">>

\* the last assistant turn carried no items, so the three items of the turn before it
\* were taken
C8_Witness ==
    /\ route = "followup"
    /\ req.message = "which one is better"
    /\ Len(req.conversationHistory) = 4
    /\ Get(req.conversationHistory[4].products) = <<>>
    /\ products = <<H1, H2, H3>>

-----------------------------------------------------------------------------
(* Claims about the budget guard and the selection mapping *)

\* the query implies a complete system and names no accessory
ImpliesCompleteSystem(message) ==
    /\ \E w \in {"laptop", "desktop", "pc", "computer"} : Includes(ToLowerCase(message), w)
    /\ ~\E w \in {"keyboard", "mouse", "cable", "accessory", "part"} :
           Includes(ToLowerCase(message), w)

\* minRealisticPrice: the price complete systems of the class start from
RealismFloor(message) == IF ProductType(message) = "desktop" THEN 35000 ELSE 30000

\* the request ended with guidance, no items and no embedding, search or generation call
EndedWithGuidance ==
    /\ pc = "done"
    /\ IsSome(resp)
    /\ Get(resp).status = 200
    /\ Get(resp).content # <<>>
    /\ Get(resp).products = <<>>
    /\ calls = <<"interpret">>

\* C9 as stated: on the fresh path, a query for a complete system without accessory
\* keyword whose merged upper price bound is below the realism floor of its product
\* class ends with guidance, zero items and no embedding, search or generation call.
C9_Original ==
    (/\ MergeStepTaken
     /\ resp # Failure(500, "Internal server error", <<"TypeError">>)
     /\ PriceRangeOf(mergedFilters)[2] < RealismFloor(req.message)
     /\ ImpliesCompleteSystem(req.message)) => EndedWithGuidance

\* C9: on the fresh path, a query for a complete system without accessory keyword whose
\* merged upper price bound is greater than 0 and below 25000 ends with a successful
\* response carrying guidance text and zero items, and no embedding, search or
\* generation call is issued.
C9_Theorem ==
    (/\ MergeStepTaken
     /\ resp # Failure(500, "Internal server error", <<"TypeError">>)
     /\ PriceRangeOf(mergedFilters)[2] > 0
     /\ PriceRangeOf(mergedFilters)[2] < 25000
     /\ ImpliesCompleteSystem(req.message)) => EndedWithGuidance

\* "gaming laptop" with the merged upper bound 15000 was answered by the guard
C9_Witness ==
    /\ route = "fresh"
    /\ req.message = "gaming laptop"
    /\ mergedFilters.priceRange = Some(<<0, 15000>>)
    /\ EndedWithGuidance
    /\ Get(resp).model = "unrealistic-budget"

\* the references of the selection object that point into the candidate list
InRangeReferences ==
    LET InRange(r) == 1 <= r /\ r <= Len(products)
    IN SelectSeq(Get(llmOut).ids, InRange)

\* C10: given a parsed selection with references r1..rn against the N candidates, the
\* displayed items are the candidates at the positions r_i (1-based), in declared
\* order, for exactly the r_i with 1 <= r_i <= N; references out of range are dropped.
C10_Claim ==
    (Responded /\ SelectionParsed) =>
        /\ Len(Displayed) = Len(InRangeReferences)
        /\ \A i \in 1..Len(Displayed) : Displayed[i] = products[InRangeReferences[i]]

-----------------------------------------------------------------------------
(* Claims about the fallback, the narrative and selection-parse failures *)

\* the number of items the fallback keeps for the interpreted intent
FallbackCount ==
    IF parsedQuery.intent = None THEN 5
    ELSE IF Get(parsedQuery.intent).productCount = "single" THEN 1
    ELSE IF Get(parsedQuery.intent).productCount = "comparison" THEN 3
    ELSE 5

\* the first k elements of s, all of s when it has fewer
FirstK(s, k) == [i \in 1..(IF Len(s) < k THEN Len(s) ELSE k) |-> s[i]]

\* C11: whenever the generator output holds no selection object, or one that cannot be
\* parsed, the displayed items are exactly the first k candidates in their order, with
\* k = 1 for intent single, 3 for comparison and 5 otherwise, on the fresh path and on
\* the follow-up path.
C11_Claim ==
    (Responded /\ IsSome(llmOut) /\ ~SelectionParsed) =>
        Displayed = FirstK(products, FallbackCount)

\* the generator output holds a well-formed selection object, bare or between fences
ContainsSelectionObject(tokens) ==
    \E i \in 1..(Len(tokens) - 2) : SubSeq(tokens, i, i + 2) = <<"{", "key", "}">>

\* the narrative the response carries
Narrative == IF IsSome(resp) THEN Get(resp).content ELSE <<>>

\* C12: whenever the generator output contains the selection object, bare or inside a
\* fenced block, the narrative returned for display holds no part of the object's text
\* and no leftover fence marker.
C12_Claim ==
    (Responded /\ IsSome(llmOut) /\ ContainsSelectionObject(Get(llmOut).tokens)) =>
        /\ Range(Narrative) \cap {"{", "key", "}"} = {}
        /\ Range(Narrative) \cap FenceTokens = {}

\* C13: a selection-parse failure is recovered locally: whatever the generator answered
\* (no selection object, an invalid one, or one whose selection field is not a list of
\* numbers), the request returns a successful response carrying the narrative, never a
\* failure response.
C13_Claim ==
    (pc = "done" /\ IsSome(llmOut)) =>
        /\ IsSome(resp)
        /\ Get(resp).status = 200
        /\ Get(resp).content # <<>>

-----------------------------------------------------------------------------
(* Claims about the Criteria Interpreter *)

\* C14: parseQuery never throws to its caller: when the generator call fails, answers
\* text that is no JSON, or answers JSON of the wrong shape (null), it returns empty
\* criteria and the pipeline continues with the request's FilterState alone.
C14_Theorem ==
    [][\A reply \in ParseReplies :
          (reply.kind # "object" /\ ParseQueryReturns(reply)) =>
              /\ parsedQuery' = EmptyParsedQuery
              /\ mergedFilters' = OrElse(req.filters, EmptyFilters)
              /\ resp' = None => pc' = "generateEmbedding"
              /\ resp' # None => Get(resp').status = 200]_vars

\* after an interpretation that produced no criteria the request went on to the
\* embedding call with the sidebar's filters
C14_Witness ==
    /\ pc = "generateEmbedding"
    /\ parsedQuery = EmptyParsedQuery
    /\ req.filters # None
    /\ Get(req.filters).priceRange = Some(<<0, 40000>>)
    /\ mergedFilters = Get(req.filters)
    /\ calls = <<"interpret", "embed">>

\* parseQuery on its own: objects the generator may return
ParseInputs ==
    {[kind |-> "object", v |-> Criteria(price, brands, cats, sources, intent)] :
        price \in {None, Some(<<0, 40000>>), Some(<<0, 300000>>), Some(<<0, 300001>>),
                   Some(<<-5, 1000>>), Some(<<500, -100>>), Some(<<350000, 100>>)},
        brands \in {None, Some(<<>>), Some(<<"HP", "">>)},
        cats \in {None, Some(<<"laptop">>), Some(<<"">>)},
        sources \in {None, Some(<<"Daraz", "Amazon">>), Some(<<"Amazon">>)},
        intent \in {None, Intent("single", "find"), Intent("dozen", "find"),
                    Intent("any", "buy")}}
    \cup {[kind |-> "error"], [kind |-> "text"], [kind |-> "null"]}

\* one call parseQuery(message): the value returned is kept in parsedQuery
ApplyParseQuery(reply) ==
    /\ pc = "idle"
    /\ parsedQuery' = ParseQuery(reply)
    /\ calls' = <<"interpret">>
    /\ StoreUnchanged
    /\ llmArgs' = <<>>
    /\ pc' = "done"
    /\ UNCHANGED <<req, route, mergedFilters, indexQuery, limit, products, llmOut,
                   llmErrors, resp>>

NextParse == \E reply \in ParseInputs : ApplyParseQuery(reply)

SpecParse == Init /\ [][NextParse]_vars

\* C15: a price interval present in the criteria parseQuery returns has both bounds
\* non-negative and both bounds at most 300000 (an interval violating this on either
\* bound is dropped, the other valid fields are kept).
C15_Claim ==
    (pc = "done" /\ parsedQuery.priceRange # None) =>
        \A i \in 1..2 :
            /\ Get(parsedQuery.priceRange)[i] >= 0
            /\ Get(parsedQuery.priceRange)[i] <= 300000

-----------------------------------------------------------------------------
(* Claims about the Relevance Retriever *)

\* the index partition that holds the vectors of an embedding space
PartitionOf(space) == IF space = "huggingface" THEN Some("huggingface") ELSE None

\* the relevance threshold of an embedding space
ThresholdOf(space) ==
    IF space = "huggingface" THEN RELEVANCE_THRESHOLD ELSE OPENAI_RELEVANCE_THRESHOLD

\* POST has issued the index query for the request
SearchIssued == route = "fresh" /\ Len(calls) >= 3 /\ calls[3] = "search"

\* C16: for every request, whatever embedding model value it carries, the partition
\* queried and the relevance threshold applied are those of the embedding space that
\* produced the query vector.
C16_Claim ==
    SearchIssued =>
        /\ indexQuery.namespace = PartitionOf(indexQuery.vector)
        /\ Threshold(req.embeddingModel) = ThresholdOf(indexQuery.vector)

\* searchProducts on its own: filters, limits and embedding model values
SearchFilterInputs ==
    [priceRange : {None, Some(<<0, 200000>>), Some(<<0, 40000>>), Some(<<25000, 40000>>)},
     categories : {None, Some(<<>>), Some(<<"laptop">>)},
     brands : {None},
     sources : {None, Some(<<"StarTech">>)}]

SearchLimits == {1, 2}

SearchModels == EmbeddingModels \cup {"cohere"}

\* one call searchProducts(queryEmbedding, filters, topK, embeddingModel) answered by
\* the index with matches: the arguments are kept in mergedFilters, limit and
\* req.embeddingModel, the index query in indexQuery, the value returned in products
ApplySearchProducts(matches, filters, topK, embeddingModel) ==
    /\ pc = "idle"
    /\ req' = [req EXCEPT !.embeddingModel = embeddingModel]
    /\ mergedFilters' = [priceRange |-> filters.priceRange, categories |-> filters.categories,
                         brands |-> filters.brands, source |-> filters.sources]
    /\ limit' = topK
    /\ indexQuery' = [vector |-> "queryEmbedding"]
                     @@ BuildIndexQuery(filters, topK, embeddingModel)
    /\ products' = SearchProducts(matches, filters, topK, embeddingModel)
    /\ calls' = <<"search">>
    /\ StoreUnchanged
    /\ llmArgs' = <<>>
    /\ pc' = "done"
    /\ UNCHANGED <<route, parsedQuery, llmOut, llmErrors, resp>>

NextSearch ==
    \E filters \in SearchFilterInputs, topK \in SearchLimits, embeddingModel \in SearchModels :
        \E matches \in IndexAnswers(FetchCount(filters, topK)) :
            ApplySearchProducts(matches, filters, topK, embeddingModel)

SpecSearch == Init /\ [][NextSearch]_vars

\* the position in the index of the record an item was made from
CatalogIndex(p) == CHOOSE i \in 1..Len(Catalog) : Catalog[i].id = p.id

\* the raw similarity score of the record, a missing score counting as 0
RawScore(p) ==
    IF Catalog[CatalogIndex(p)].score = None THEN 0 ELSE Get(Catalog[CatalogIndex(p)].score)

\* C17: every item searchProducts returns had a raw similarity score at or above the
\* threshold of the embedding space searched: 0.5 for huggingface, 0.4 for openai, a
\* missing score counting as 0.
C17_Theorem ==
    pc = "done" =>
        \A i \in 1..Len(products) :
            RawScore(products[i]) >=
                (IF indexQuery.namespace = Some("huggingface") THEN 50 ELSE 40)

\* under huggingface the record scored 0.70 was returned; the records scored 0.45 and
\* without score cannot be
C17_Witness ==
    /\ pc = "done"
    /\ req.embeddingModel = "huggingface"
    /\ indexQuery.namespace = Some("huggingface")
    /\ mergedFilters.priceRange = None
    /\ Len(products) = 1
    /\ products[1].id = "C"

\* C18: when the price filter's upper bound is below the unrestricted ceiling (200000)
\* the list searchProducts returns is sorted ascending by price_min; otherwise the items
\* appear in the relative order in which the index returned them.
C18_Theorem ==
    pc = "done" =>
        \A i, j \in 1..Len(products) :
            i < j =>
                IF mergedFilters.priceRange # None /\ Get(mergedFilters.priceRange)[2] < 200000
                THEN products[i].price_min <= products[j].price_min
                ELSE CatalogIndex(products[i]) < CatalogIndex(products[j])

\* under [0, 40000] the record without price metadata (price_min 0) was returned before
\* the better-scored record starting at 30000
C18_Witness ==
    /\ pc = "done"
    /\ mergedFilters.priceRange = Some(<<0, 40000>>)
    /\ Len(products) = 2
    /\ products[1].id = "C" /\ products[2].id = "B"
    /\ CatalogIndex(products[1]) > CatalogIndex(products[2])

\* C19: the index is asked for 2 x limit candidates when the category filter is not
\* empty and for exactly limit otherwise, and searchProducts never returns more than
\* limit items.
C19_Theorem ==
    pc = "done" =>
        /\ (mergedFilters.categories # None /\ Get(mergedFilters.categories) # <<>>) =>
               indexQuery.topK = 2 * limit
        /\ (mergedFilters.categories = None \/ Get(mergedFilters.categories) = <<>>) =>
               indexQuery.topK = limit
        /\ Len(products) <= limit

\* with limit 1 and the category filter "laptop" the index was asked for two records
\* and one item was returned
C19_Witness ==
    /\ pc = "done"
    /\ limit = 1
    /\ mergedFilters.categories = Some(<<"laptop">>)
    /\ indexQuery.topK = 2
    /\ Len(products) = 1

\* C20: an index error during retrieval ends the request with the failure response
\* "Failed to search products" (status 500) and never with an empty result, while a
\* successful index query that leaves no product ends it with a success response
\* (status 200, model "no-results"), which differs from the failure response.
C20_Theorem ==
    [][pc = "searchProducts" =>
           /\ SearchFails =>
                  /\ pc' = "done"
                  /\ IsSome(resp')
                  /\ Get(resp').status = 500
                  /\ Get(resp').error = "Failed to search products"
                  /\ Get(resp').model # "no-results"
           /\ \A matches \in IndexAnswers(indexQuery.topK) :
                  (SearchReturns(matches) /\ products' = <<>>) =>
                      /\ pc' = "done"
                      /\ IsSome(resp')
                      /\ Get(resp').status = 200
                      /\ Get(resp').error = ""
                      /\ Get(resp').model = "no-results"
                      /\ Get(resp').products = <<>>]_vars

\* the index failed after the embedding was obtained and the request ended with 500
C20_Witness ==
    /\ pc = "done"
    /\ calls = <<"interpret", "embed", "search">>
    /\ resp = Failure(500, "Failed to search products", <<"Vector search failed">>)
    /\ products = <<>>

\* a successful index query left nothing and the request ended with the no-results
\* success
C20_EmptyResultReached ==
    /\ pc = "done"
    /\ IsSome(resp)
    /\ Get(resp).status = 200
    /\ Get(resp).model = "no-results"
    /\ products = <<>>

\* the generation calls issued for the request, in order
GenerationCalls ==
    LET IsGeneration(c) == c \in {"generate:openai", "generate:gemini"}
    IN SelectSeq(calls, IsGeneration)

\* the backend a generation call went to
BackendOf(call) == IF call = "generate:openai" THEN "openai" ELSE "gemini"

\* C21: at most two generation calls are made for a request; while the preferred
\* backend's call is in flight, and after it succeeded, there is exactly one; a second
\* call exists only once the preferred backend's failure is recorded, it goes to the
\* other backend with the same instructions, message and context, and a response built
\* from generator output names as provider the backend of the last call.
C21_Theorem ==
    LET g == GenerationCalls IN
    /\ Len(g) <= 2
    /\ Len(llmArgs) = Len(g)
    /\ pc = "queryLLM" => Len(g) = 1 /\ llmErrors = <<>>
    /\ (IsSome(llmOut) /\ llmErrors = <<>>) => Len(g) = 1
    /\ Len(g) = 1 => BackendOf(g[1]) = PreferredBackend(req.provider) /\ llmErrors = <<>>
    /\ Len(g) = 2 =>
           /\ llmErrors # <<>>
           /\ llmErrors[1] = BackendOf(g[1])
           /\ BackendOf(g[1]) = PreferredBackend(req.provider)
           /\ BackendOf(g[2]) # BackendOf(g[1])
           /\ llmArgs[2] = llmArgs[1]
    /\ (pc = "done" /\ IsSome(llmOut) /\ IsSome(resp) /\ Get(resp).status = 200) =>
           Get(resp).provider = BackendOf(g[Len(g)])

\* gemini failed, openai was then called with the same arguments and its output made
\* the response
C21_Witness ==
    /\ pc = "done"
    /\ GenerationCalls = <<"generate:gemini", "generate:openai">>
    /\ llmErrors = <<"gemini">>
    /\ Len(llmArgs) = 2
    /\ llmArgs[1].context.productContext # <<>>
    /\ IsSome(llmOut)
    /\ IsSome(resp)
    /\ Get(resp).status = 200
    /\ Get(resp).provider = "openai"

\* the backend a label of the double-failure message names
LabelledBackend(label) == IF label = "OpenAI" THEN "openai" ELSE "gemini"

\* both backends of queryLLM have failed for the request
BothBackendsFailed == pc = "done" /\ Len(llmErrors) = 2

\* C22: when both generator backends failed the request ends with the failure
\* "Failed to generate response" whose detail lists two causes, each under the label of
\* the backend that raised it, whichever backend was preferred.
C22_Claim ==
    BothBackendsFailed =>
        /\ IsSome(resp)
        /\ Get(resp).status = 500
        /\ Get(resp).error = "Failed to generate response"
        /\ Len(Get(resp).details) = 2
        /\ \A i \in 1..2 :
               LabelledBackend(Get(resp).details[i].label) = Get(resp).details[i].cause
        /\ {Get(resp).details[i].cause : i \in 1..2} = {"openai", "gemini"}

\* the request ended with a failure response
EndedWithFailure == pc = "done" /\ IsSome(resp) /\ Get(resp).status # 200

\* C23: a request with a valid message ends with a failure response only if the
\* embedding call failed, the index search failed or both generator backends failed;
\* in every other case it ends with a successful response.
C23_Claim ==
    (pc = "done" /\ req.message # "") =>
        /\ IsSome(resp)
        /\ EndedWithFailure =>
               \/ Get(resp).error = "Failed to generate embedding"
               \/ Get(resp).error = "Failed to search products"
               \/ Get(resp).error = "Failed to generate response" /\ Len(llmErrors) = 2

\* C24: every step in which the index answers and no product is left ends the request
\* with a successful response that carries guidance text and no displayed item, with no
\* generation call issued for the request.
C24_Theorem ==
    [][pc = "searchProducts" =>
           \A matches \in IndexAnswers(indexQuery.topK) :
               (SearchReturns(matches) /\ products' = <<>>) =>
                   /\ pc' = "done"
                   /\ IsSome(resp')
                   /\ Get(resp').status = 200
                   /\ Get(resp').content # <<>>
                   /\ Get(resp').products = <<>>
                   /\ Get(resp').productsFound = 0
                   /\ StoreUnchanged
                   /\ llmArgs' = <<>>
                   /\ calls' = <<"interpret", "embed", "search">>]_vars

\* a successful search left nothing: the request ended with the no-results guidance
\* and without a generation call
C24_Witness ==
    /\ pc = "done"
    /\ calls = <<"interpret", "embed", "search">>
    /\ llmArgs = <<>>
    /\ llmOut = None
    /\ products = <<>>
    /\ IsSome(resp)
    /\ Get(resp).status = 200
    /\ Get(resp).model = "no-results"
    /\ Get(resp).content # <<>>
    /\ Get(resp).products = <<>>

\* the calls of a fresh request whose every stage was reached
PipelineCalls ==
    <<"interpret", "embed", "search",
      "generate:" \o PreferredBackend(req.provider),
      "generate:" \o FallbackBackend(req.provider)>>

\* the calls issued so far are in pipeline order, none repeated, for the route taken
CallOrderKept ==
    /\ route \in {"none", "invalid", "casual"} => calls = <<>>
    /\ route = "followup" =>
           /\ Len(calls) \in {1, 2}
           /\ calls = SubSeq(PipelineCalls, 4, 3 + Len(calls))
    /\ route = "fresh" =>
           /\ Len(calls) \in 1..5
           /\ calls = SubSeq(PipelineCalls, 1, Len(calls))

\* the call the request's task is waiting on is the last one issued
PendingCallIsLast ==
    /\ pc = "parseQuery" => calls = <<"interpret">>
    /\ pc = "generateEmbedding" => calls = <<"interpret", "embed">>
    /\ pc = "searchProducts" => calls = <<"interpret", "embed", "search">>
    /\ pc = "queryLLM" => calls[Len(calls)] = "generate:" \o PreferredBackend(req.provider)
    /\ pc = "queryLLMFallback" =>
           calls[Len(calls)] = "generate:" \o FallbackBackend(req.provider)

\* a failed embedding, search or second generation call is followed by no call, and a
\* generation call is issued on the fresh route only with candidates to present
NoCallAfterFailure ==
    /\ (EmbeddingFails \/ SearchFails \/ LLMFallbackFails) => calls' = calls
    /\ (route' = "fresh" /\ Len(calls') >= 4) => products' # <<>>

\* C25 as stated: the calls of a request occur in the order interpret, embed, search,
\* generate, each at most once (generate at most twice), the casual route issuing none
\* and the follow-up route only generation calls, and each call is issued only after its
\* predecessor resolved successfully, the interpretation call included.
C25_Original ==
    [][/\ CallOrderKept'
       /\ PendingCallIsLast'
       /\ NoCallAfterFailure
       /\ pc = "parseQuery" =>
              \A reply \in ParseReplies :
                  (reply.kind = "error" /\ ParseQueryReturns(reply)) => calls' = calls]_vars

\* C25: the calls of a request occur in the order interpret, embed, search, generate,
\* each at most once (generate at most twice), the casual route issuing none and the
\* follow-up route only generation calls; a call is issued only once its predecessor
\* has resolved, successfully for the search and generation calls, while the embedding
\* call follows the interpretation call whether that call succeeded or failed.
C25_Theorem ==
    [][/\ CallOrderKept'
       /\ PendingCallIsLast'
       /\ NoCallAfterFailure
       /\ pc = "parseQuery" =>
              \A reply \in ParseReplies :
                  ParseQueryReturns(reply) => calls' \in {calls, Append(calls, "embed")}]_vars

\* a fresh request went through every stage: interpretation without criteria,
\* embedding, search, the preferred backend and then the fallback backend
C25_Witness ==
    /\ pc = "done"
    /\ route = "fresh"
    /\ parsedQuery = EmptyParsedQuery
    /\ calls = PipelineCalls
    /\ IsSome(resp)
    /\ Get(resp).status = 200

\* The handler, for one fresh and one follow-up request, under the scheduling the code
\* has: POST runs to its first await once a
\* request has arrived, and resumes only when the awaited call settles. No step of the
\* code settles a call by itself (no timer, no abort signal), so a collaborator's reply
\* is not under any fairness condition.
HandleLiveRequest == pc = "idle" /\ \E r \in ExtraRequests : Receive(r)

NextLive ==
    \/ HandleLiveRequest
    \/ Interpret
    \/ EmbeddingReturns
    \/ EmbeddingFails
    \/ Search
    \/ SearchFails
    \/ Generate
    \/ LLMFails
    \/ GenerateFallback
    \/ LLMFallbackFails

SpecLive == Init /\ [][NextLive]_vars /\ WF_vars(HandleLiveRequest)

\* the request's task is waiting on an external call
AwaitingCall ==
    pc \in {"parseQuery", "generateEmbedding", "searchProducts", "queryLLM", "queryLLMFallback"}

\* C26: whenever the request's task waits on an external call, the request eventually
\* ends with a response, even if the collaborator never replies.
C26_Claim == AwaitingCall ~> (pc = "done" /\ IsSome(resp))

\* the last n turns of a history
LastTurns(history, n) ==
    SubSeq(history, IF Len(history) > n THEN Len(history) - n + 1 ELSE 1, Len(history))

\* C27: whatever the length of the history in the request, every generation call's
\* context holds at most the last 8 turns, and on the follow-up route the prior items
\* come from a turn among the last 20, the window the client sends.
C27_Claim ==
    /\ \A k \in 1..Len(llmArgs) :
           /\ Len(llmArgs[k].context.conversationContext) <= HISTORY_CONTEXT_TURNS
           /\ llmArgs[k].context.conversationContext =
                  FormatConversationHistory(
                      LastTurns(req.conversationHistory, HISTORY_CONTEXT_TURNS))
    /\ route = "followup" =>
           LET window == LastTurns(req.conversationHistory, CLIENT_HISTORY_TURNS)
           IN \E i \in 1..Len(window) :
                  CarriesProducts(window[i]) /\ Get(window[i].products) = products

\* the response was built from generator output
FromGenerator == pc = "done" /\ IsSome(llmOut) /\ IsSome(resp) /\ Get(resp).status = 200

\* C28: on every response built from generator output, on the fresh route and on the
\* follow-up route, the items-found count of the metadata is the number of candidates
\* presented to the generator, not the number of items displayed.
C28_Claim ==
    FromGenerator =>
        /\ Len(llmArgs) >= 1
        /\ Get(resp).productsFound = Len(llmArgs[Len(llmArgs)].context.productContext)
        /\ Get(resp).productsFound = Len(products)

\* an optional price interval is absent or has its lower bound at most its upper bound
Feasible(priceRange) == IsSome(priceRange) => Get(priceRange)[1] <= Get(priceRange)[2]

\* C29: the price interval of the criteria parseQuery returned, and that of the merged
\* filter the budget guard and the retriever receive, has its lower bound at most its
\* upper bound whenever the request's own FilterState interval has.
C29_Claim ==
    (/\ route = "fresh"
     /\ pc # "parseQuery"
     /\ Feasible(OrElse(req.filters, EmptyFilters).priceRange)) =>
        /\ Feasible(parsedQuery.priceRange)
        /\ Feasible(mergedFilters.priceRange)
        /\ (Len(calls) >= 3 /\ IsSome(indexQuery.filter.price_min_gte)
                            /\ IsSome(indexQuery.filter.price_max_lte)) =>
               Get(indexQuery.filter.price_min_gte) <= Get(indexQuery.filter.price_max_lte)

-----------------------------------------------------------------------------
(* Conversation store of the client: saveConversation, deleteConversation,
   clearAllConversations. The localStorage and sessionStorage calls are taken to
   succeed; Date's reading is in milliseconds and does not go backwards, so two
   calls may read the same value. *)

MAX_CONVERSATIONS == 10

MaxNow == 1   \* last clock reading of the model

\* the ids createConversation can hand out: one more than the store keeps
ConversationIds == 1..(MAX_CONVERSATIONS + 1)

Conversation(id, updatedAt) == [id |-> id, updatedAt |-> updatedAt]

\* the request handler is not involved in a store operation
ServerUnchanged ==
    UNCHANGED <<pc, req, route, parsedQuery, mergedFilters, indexQuery, limit, products,
                llmOut, llmErrors, resp, calls, llmArgs>>

\* c placed into a list sorted by descending updatedAt, after the elements that do not
\* compare below it
InsertByUpdatedAt(sorted, c) ==
    LET k == Cardinality({i \in 1..Len(sorted) : sorted[i].updatedAt >= c.updatedAt})
    IN SubSeq(sorted, 1, k) \o <<c>> \o SubSeq(sorted, k + 1, Len(sorted))

\* conversations.sort((a, b) => b.updatedAt.getTime() - a.updatedAt.getTime()) : a
\* stable sort, equal elements keep their order
RECURSIVE SortByUpdatedAt(_)
SortByUpdatedAt(s) ==
    IF Len(s) = 0 THEN <<>>
    ELSE InsertByUpdatedAt(SortByUpdatedAt(SubSeq(s, 1, Len(s) - 1)), s[Len(s)])

\* the list saveConversation writes for the conversation id at the reading time, the
\* store holding all
SavedConversations(all, id, time) ==
    LET conversation == Conversation(id, time)
        existingIndex == {i \in 1..Len(all) : all[i].id = id}
        updated == IF existingIndex # {}
                   THEN [all EXCEPT ![Min(existingIndex)] = conversation]
                   ELSE Append(all, conversation)
    IN Slice(SortByUpdatedAt(updated), MAX_CONVERSATIONS)

\* createConversation: a conversation with a fresh id becomes the active one
CreateConversation ==
    /\ created < MAX_CONVERSATIONS + 1
    /\ created' = created + 1
    /\ currentConversationId' = Some(created + 1)
    /\ lastSaved' = None
    /\ UNCHANGED <<conversations, now>>
    /\ ServerUnchanged

\* the conversations the operations of the model are applied to: the active one, as
\* the page does, and the one at the end of the stored list
OperatedIds ==
    (IF IsSome(currentConversationId) THEN {Get(currentConversationId)} ELSE {})
    \cup (IF Len(conversations) > 0 THEN {conversations[Len(conversations)].id} ELSE {})

\* saveConversation(conversation)
SaveConversation(id) ==
    /\ id \in OperatedIds
    /\ conversations' = SavedConversations(conversations, id, now)
    /\ lastSaved' = Some(id)
    /\ UNCHANGED <<currentConversationId, created, now>>
    /\ ServerUnchanged

\* deleteConversation(id)
DeleteConversation(id) ==
    /\ id \in OperatedIds
    /\ conversations' = SelectSeq(conversations, LAMBDA c : c.id # id)
    /\ currentConversationId' =
           IF currentConversationId = Some(id) THEN None ELSE currentConversationId
    /\ lastSaved' = None
    /\ UNCHANGED <<created, now>>
    /\ ServerUnchanged

\* clearAllConversations()
ClearAllConversations ==
    /\ conversations' = <<>>
    /\ currentConversationId' = None
    /\ lastSaved' = None
    /\ UNCHANGED <<created, now>>
    /\ ServerUnchanged

\* a millisecond passes on the client
Tick ==
    /\ now < MaxNow
    /\ now' = now + 1
    /\ UNCHANGED <<conversations, currentConversationId, created, lastSaved>>
    /\ ServerUnchanged

Save == \E id \in ConversationIds : SaveConversation(id)

Delete == \E id \in ConversationIds : DeleteConversation(id)

NextStore ==
    \/ CreateConversation
    \/ Save
    \/ Delete
    \/ ClearAllConversations
    \/ Tick

SpecStore == Init /\ [][NextStore]_vars

\* the ids held by a list of conversations
StoredIds(list) == {list[i].id : i \in 1..Len(list)}

\* the store holds at most MAX_CONVERSATIONS conversations, no id twice
StoreBounded ==
    /\ Len(conversations) <= MAX_CONVERSATIONS
    /\ Cardinality(StoredIds(conversations)) = Len(conversations)

\* every conversation that left the store in the step is no younger than every one kept
EvictedAreOldest ==
    \A i \in 1..Len(conversations) :
        conversations[i].id \notin StoredIds(conversations') =>
            \A j \in 1..Len(conversations') :
                conversations[i].updatedAt <= conversations'[j].updatedAt

\* C30: after any sequence of saveConversation, deleteConversation and
\* clearAllConversations calls the store holds at most 10 conversations with pairwise
\* distinct ids; right after saveConversation(c) the store contains c, and the
\* conversations a save evicts are those with the oldest updatedAt.
C30_Claim ==
    [][/\ StoreBounded'
       /\ IsSome(lastSaved') => Get(lastSaved') \in StoredIds(conversations')
       /\ \A id \in ConversationIds : SaveConversation(id) => EvictedAreOldest]_vars

====
